---------------------------- MODULE Spec2Model ----------------------------
(***************************************************************************)
(* Model of the survey preview panel (PreviewPanel.tsx) and of the part of *)
(* the zustand store it uses (survey-store.ts): the draft parser, the      *)
(* group paginator, the canonical serializer, the edit operations and the  *)
(* save / export handlers.                                                 *)
(*                                                                         *)
(* Text is a sequence of characters; a character is a one-element string.  *)
(* Characters outside ASCII carry a name: "c1" .. "c12" are the circled    *)
(* numerals U+2460 .. U+246B, and the definitions below name the others.   *)
(***************************************************************************)
EXTENDS Integers, Sequences, FiniteSets, TLC

\* ------------------------------------------------------------ characters
NL   == "NL"        \* line feed
BSL  == "BSL"       \* backslash
DQ   == "DQ"        \* double quote
SQ   == "SQ"        \* single quote
MUN  == "ko_mun"    \* U+BB38, first syllable of the item keyword
HANG == "ko_hang"   \* U+D56D, second syllable of the item keyword
JU   == "ko_ju"     \* U+C8FC  \
GWAN == "ko_gwan"   \* U+AD00   > the open-response keyword
SIK  == "ko_sik"    \* U+C2DD  /
EUNG == "ko_eung"   \* U+C751
DAP  == "ko_dap"    \* U+B2F5
SAE  == "ko_sae"    \* U+C0C8
SEON == "ko_seon"   \* U+C120
TAEK == "ko_taek"   \* U+D0DD
JI   == "ko_ji"     \* U+C9C0
ARROW  == "arrow"   \* U+2192, the branch arrow
CIRC0  == "c0"      \* U+24DE, circled small o
WCIRC  == "wcirc"   \* U+25CB, white circle
BCIRC  == "bcirc"   \* U+25CF, black circle
BULLET == "bullet"  \* U+2022

circledNumbers == <<"c1", "c2", "c3", "c4", "c5", "c6",
                    "c7", "c8", "c9", "c10", "c11", "c12">>

Range(s) == {s[i] : i \in 1..Len(s)}

Digits == <<"0", "1", "2", "3", "4", "5", "6", "7", "8", "9">>

IsDigit(c) == c \in Range(Digits)

\* the characters \s and trim() treat as white space
IsWs(c) == c \in {" ", "TAB", NL}

\* String.prototype.toUpperCase on the letters of the type codes
ToUpper(c) ==
    CASE c = "s" -> "S" [] c = "c" -> "C" [] c = "m" -> "M" [] c = "a" -> "A"
      [] c = "o" -> "O" [] c = "q" -> "Q" [] c = "r" -> "R" [] c = "k" -> "K"
      [] c = "d" -> "D" [] c = "g" -> "G" [] OTHER -> c

UpperSeq(s) == [i \in 1..Len(s) |-> ToUpper(s[i])]

\* ------------------------------------------------------- string helpers
From(s, i) == SubSeq(s, i, Len(s))

\* length of the longest run of characters of class P(_) starting at i
RECURSIVE RunLen(_, _, _)
RunLen(s, i, cls) ==
    IF i <= Len(s) /\ s[i] \in cls THEN 1 + RunLen(s, i + 1, cls) ELSE 0

WsSet == {" ", "TAB", NL}

WsRun(s, i) == RunLen(s, i, WsSet)

DigitRun(s, i) == RunLen(s, i, Range(Digits))

HasAt(s, i, pat) ==
    /\ i >= 1
    /\ i + Len(pat) - 1 <= Len(s)
    /\ \A k \in 1..Len(pat) : s[i + k - 1] = pat[k]

\* String.prototype.includes
Includes(s, pat) == \E i \in 1..(Len(s) + 1) : HasAt(s, i, pat)

\* String.prototype.trim
RECURSIVE TrimLeft(_)
TrimLeft(s) == IF s # <<>> /\ IsWs(Head(s)) THEN TrimLeft(Tail(s)) ELSE s

RECURSIVE TrimRight(_)
TrimRight(s) ==
    IF s # <<>> /\ IsWs(s[Len(s)]) THEN TrimRight(SubSeq(s, 1, Len(s) - 1)) ELSE s

Trim(s) == TrimRight(TrimLeft(s))

\* String.prototype.split on one separator character: the pieces between
\* consecutive occurrences of the separator
Split(s, sep) ==
    LET P == {i \in 1..Len(s) : s[i] = sep}
        n == Cardinality(P)
        pos(k) == IF k = 0 THEN 0
                  ELSE IF k = n + 1 THEN Len(s) + 1
                  ELSE CHOOSE p \in P : Cardinality({q \in P : q < p}) = k - 1
    IN  [k \in 1..(n + 1) |-> SubSeq(s, pos(k - 1) + 1, pos(k) - 1)]

\* Number -> decimal string (template literal `${n}`)
RECURSIVE ToDecimal(_)
ToDecimal(n) ==
    IF n < 10 THEN <<Digits[n + 1]>>
    ELSE Append(ToDecimal(n \div 10), Digits[(n % 10) + 1])

\* Array.prototype.join
RECURSIVE Join(_, _)
Join(ls, sep) ==
    IF ls = <<>> THEN <<>>
    ELSE IF Len(ls) = 1 THEN ls[1]
    ELSE ls[1] \o sep \o Join(Tail(ls), sep)


\* ----------------------------------------------------- pattern tables
\* the closed set of type codes of TYPE_CODE_PATTERN
TypeCodes == { <<"S","C">>, <<"M","A">>, <<"O","Q">>, <<"R","S">>,
               <<"D","C">>, <<"R","K">>, <<"M","G">> }

\* /\((SC|MA|OQ|RS|DC|RK|MG)(?:\(\d+\))?\)/i anchored at position i:
\* the length of the token matched there, 0 when there is none
TypeTokenLen(s, i) ==
    IF /\ i + 3 <= Len(s)
       /\ s[i] = "("
       /\ UpperSeq(SubSeq(s, i + 1, i + 2)) \in TypeCodes
    THEN LET d == DigitRun(s, i + 4)
         IN  IF s[i + 3] = "(" /\ d >= 1 /\ HasAt(s, i + 4 + d, <<")", ")">>)
             THEN d + 6
             ELSE IF s[i + 3] = ")" THEN 4 ELSE 0
    ELSE 0

\* line.match(TYPE_CODE_PATTERN): the position of the leftmost token, 0 if none
RECURSIVE TypeTokenPos(_, _)
TypeTokenPos(s, i) ==
    IF i > Len(s) THEN 0
    ELSE IF TypeTokenLen(s, i) > 0 THEN i
    ELSE TypeTokenPos(s, i + 1)

\* .replace(/\((?:SC|MA|OQ|RS|DC|RK|MG)(?:\(\d+\))?\)/gi, '')
RECURSIVE RemoveTypeCodes(_, _)
RemoveTypeCodes(s, i) ==
    IF i > Len(s) THEN <<>>
    ELSE LET n == TypeTokenLen(s, i)
         IN  IF n > 0 THEN RemoveTypeCodes(s, i + n)
             ELSE <<s[i]>> \o RemoveTypeCodes(s, i + 1)

\* .replace(/\*\*/g, '')
RECURSIVE RemoveBold(_, _)
RemoveBold(s, i) ==
    IF i > Len(s) THEN <<>>
    ELSE IF HasAt(s, i, <<"*", "*">>) THEN RemoveBold(s, i + 2)
    ELSE <<s[i]>> \o RemoveBold(s, i + 1)

\* position of the first character c at or after i, 0 if none
RECURSIVE IndexFrom(_, _, _)
IndexFrom(s, c, i) ==
    IF i > Len(s) THEN 0
    ELSE IF s[i] = c THEN i
    ELSE IndexFrom(s, c, i + 1)

\* .replace(/\[.*?\]/g, ''): each "[" up to the nearest "]" after it
RECURSIVE RemoveBracketed(_, _)
RemoveBracketed(s, i) ==
    IF i > Len(s) THEN <<>>
    ELSE LET j == IF s[i] = "[" THEN IndexFrom(s, "]", i + 1) ELSE 0
         IN  IF j > 0 THEN RemoveBracketed(s, j + 1)
             ELSE <<s[i]>> \o RemoveBracketed(s, i + 1)

NoMatch == [ok |-> FALSE, number |-> <<>>, rest |-> <<>>]

\* the tail of both boundary patterns, [.:]?\*?\*?\s*(.+) (stars only for
\* the keyword pattern), matched against the non-empty remainder r of a
\* trimmed line: the text captured by (.+).  When the optional prefix
\* swallows all of r, backtracking hands its last character to (.+).
BoundaryTail(r, stars) ==
    LET i1 == IF r[1] \in {".", ":"} THEN 2 ELSE 1
        s1 == IF stars /\ i1 <= Len(r) /\ r[i1] = "*" THEN i1 + 1 ELSE i1
        s2 == IF stars /\ s1 > i1 /\ s1 <= Len(r) /\ r[s1] = "*" THEN s1 + 1 ELSE s1
        i3 == s2 + WsRun(r, s2)
    IN  IF i3 <= Len(r) THEN From(r, i3) ELSE <<r[Len(r)]>>

\* (\d+(?:-\d+)?) at position q followed by the tail, with the regex
\* engine's greedy choice and backtracking order
NumberAndTail(line, q, stars) ==
    LET n == DigitRun(line, q)
        a == q + n
        m == IF a <= Len(line) /\ line[a] = "-" THEN DigitRun(line, a + 1) ELSE 0
        L == Len(line)
    IN  IF n = 0 THEN NoMatch
        ELSE IF m >= 1 THEN
            \* the sub-number is taken whole, then shortened, then dropped
            IF a + m < L
            THEN [ok |-> TRUE, number |-> SubSeq(line, q, a + m),
                  rest |-> BoundaryTail(From(line, a + m + 1), stars)]
            ELSE IF m >= 2
            THEN [ok |-> TRUE, number |-> SubSeq(line, q, a + m - 1),
                  rest |-> BoundaryTail(From(line, a + m), stars)]
            ELSE [ok |-> TRUE, number |-> SubSeq(line, q, a - 1),
                  rest |-> BoundaryTail(From(line, a), stars)]
        ELSE IF a <= L
            THEN [ok |-> TRUE, number |-> SubSeq(line, q, a - 1),
                  rest |-> BoundaryTail(From(line, a), stars)]
            ELSE IF n >= 2
            THEN [ok |-> TRUE, number |-> SubSeq(line, q, a - 2),
                  rest |-> BoundaryTail(From(line, a - 1), stars)]
            ELSE NoMatch

\* /^\*?\*?<item keyword>\s*(\d+(?:-\d+)?)[.:]?\*?\*?\s*(.+)/i
MatchKeywordPattern(line) ==
    LET k == IF HasAt(line, 1, <<"*", "*">>) THEN 2
             ELSE IF HasAt(line, 1, <<"*">>) THEN 1 ELSE 0
    IN  IF HasAt(line, k + 1, <<MUN, HANG>>)
        THEN NumberAndTail(line, k + 3 + WsRun(line, k + 3), TRUE)
        ELSE NoMatch

\* /^Q(\d+(?:-\d+)?)[.:]?\s*(.+)/i
MatchQPattern(line) ==
    IF line # <<>> /\ line[1] \in {"Q", "q"}
    THEN NumberAndTail(line, 2, FALSE)
    ELSE NoMatch

\* fault: a line with a bare numeric index opens a question as well
QuestionMatch_Numbered(line) ==
    LET m == MatchKeywordPattern(line)
    IN  IF m.ok THEN m
        ELSE IF line # <<>> /\ IsDigit(line[1]) THEN NumberAndTail(line, 1, FALSE)
        ELSE MatchQPattern(line)

\* the loop over QUESTION_KEYWORD_PATTERNS: the first pattern that matches
QuestionMatch(line) ==
    LET m == MatchKeywordPattern(line)
    IN  IF m.ok THEN m ELSE MatchQPattern(line)

\* ------------------------------------------------------ option extractor
CircledTen == {circledNumbers[i] : i \in 1..10}

\* glyph class [c1..c12 wcirc bcirc] of the cleaning step and of numberPattern
GlyphSet == Range(circledNumbers) \cup {WCIRC, BCIRC}

\* /^[<cls>]\s*(.+)/ on a trimmed line: the capture, <<>> when no match
MatchGlyphPrefix(line, cls) ==
    IF line # <<>> /\ line[1] \in cls
    THEN From(line, 2 + WsRun(line, 2))
    ELSE <<>>

\* /^\(\d+\)\s*(.+)/
MatchParenIndex(line) ==
    LET d == DigitRun(line, 2)
    IN  IF line # <<>> /\ line[1] = "(" /\ d >= 1 /\ HasAt(line, 2 + d, <<")">>)
        THEN From(line, 3 + d + WsRun(line, 3 + d))
        ELSE <<>>

\* /^[-<bullet>]\s+(.+)/
MatchDashBullet(line) ==
    IF line # <<>> /\ line[1] \in {"-", BULLET} /\ WsRun(line, 2) >= 1
    THEN From(line, 2 + WsRun(line, 2))
    ELSE <<>>

\* the loop over optionPatterns, in the order of the table
MatchOptionPatterns(line) ==
    LET p1 == MatchGlyphPrefix(line, Range(circledNumbers))
        p2 == MatchGlyphPrefix(line, {CIRC0})
        p3 == MatchParenIndex(line)
        p4 == MatchDashBullet(line)
        p5 == MatchGlyphPrefix(line, {WCIRC, BCIRC})
    IN  IF p1 # <<>> THEN p1
        ELSE IF p2 # <<>> THEN p2
        ELSE IF p3 # <<>> THEN p3
        ELSE IF p4 # <<>> THEN p4
        ELSE p5

\* /^(\d{1,2})[.)]\s+(.+)/
MatchNumDot(line) ==
    LET d == DigitRun(line, 1)
    IN  IF /\ d \in {1, 2}
           /\ d + 1 <= Len(line)
           /\ line[d + 1] \in {".", ")"}
           /\ WsRun(line, d + 2) >= 1
        THEN From(line, d + 2 + WsRun(line, d + 2))
        ELSE <<>>

\* /^-\s*[c1..c10]?\s*(.+)/: when the glyph is the last character of the
\* line, backtracking leaves it to (.+)
MatchDashGlyph(line) ==
    IF line = <<>> \/ line[1] # "-" THEN <<>>
    ELSE LET p == 2 + WsRun(line, 2)
         IN  IF p <= Len(line) /\ line[p] \in CircledTen /\ p < Len(line)
             THEN From(line, p + 1 + WsRun(line, p + 1))
             ELSE From(line, p)

\* the three attempts of the option branch, each only if the one before
\* left optionText empty
ExtractOptionText(line) ==
    LET byTable == MatchOptionPatterns(line)
        byNum   == MatchNumDot(line)
    IN  IF byTable # <<>> THEN byTable
        ELSE IF byNum # <<>> THEN byNum
        ELSE MatchDashGlyph(line)

\* .replace(/^[c1..c12 wcirc bcirc]\s*/, '')
StripLeadingGlyph(s) ==
    IF s # <<>> /\ s[1] \in GlyphSet THEN From(s, 2 + WsRun(s, 2)) ELSE s

\* fault: the text after the branch arrow is kept
CleanOption_NoTruncate(t) ==
    Trim(StripLeadingGlyph(RemoveTypeCodes(t, 1)))

\* the cleaning chain applied to a captured option text
CleanOption(t) ==
    Trim(StripLeadingGlyph(RemoveTypeCodes(Split(t, ARROW)[1], 1)))

\* the option string a line contributes to the open question, <<>> if none
OptionOf(line) ==
    LET optionText == ExtractOptionText(line)
    IN  IF optionText # <<>> THEN CleanOption(optionText) ELSE <<>>

\* --------------------------------------------------- question assembler
\* the keyword whose presence on the boundary line marks an open question
OpenKeyword == <<JU, GWAN, SIK>>

\* fault: the code is taken as written
TypeOf_AsWritten(line) ==
    LET p == TypeTokenPos(line, 1)
    IN  IF p > 0 THEN SubSeq(line, p + 1, p + 2) ELSE <<"S", "C">>

\* the type code of a boundary line, 'SC' when it carries none
TypeOf(line) ==
    LET p == TypeTokenPos(line, 1)
    IN  IF p > 0 THEN UpperSeq(SubSeq(line, p + 1, p + 2)) ELSE <<"S", "C">>

\* questionMatch[2] with emphasis, bracketed notes and type codes removed
QuestionText(rest) ==
    Trim(RemoveTypeCodes(RemoveBracketed(RemoveBold(rest, 1), 1), 1))

\* `q_${questionId}`
QId(n) == <<"q", "_">> \o ToDecimal(n)

\* the Question record opened by a boundary line
NewQuestion(line, m, qid) ==
    LET type == TypeOf(line)
    IN  [ id      |-> QId(qid),
          number  |-> m.number,
          text    |-> QuestionText(m.rest),
          options |-> <<>>,
          type    |-> type,
          isOpen  |-> (type = <<"O", "Q">>) \/ Includes(line, OpenKeyword) ]

\* fault: the question still open at the end of the input is not pushed
FlushLast_Dropped(acc, cur) == acc

\* the flush after the loop: push the question still open, if any
FlushLast(acc, cur) == IF cur = <<>> THEN acc ELSE acc \o cur

\* fault: an option is put in front of the options collected so far
RECURSIVE ParseLines_Prepending(_, _, _, _, _)
ParseLines_Prepending(lines, i, acc, cur, qid) ==
    IF i > Len(lines) THEN FlushLast(acc, cur)
    ELSE LET line == Trim(lines[i])
             m    == QuestionMatch(line)
             opt  == OptionOf(line)
         IN  IF line = <<>> THEN ParseLines_Prepending(lines, i + 1, acc, cur, qid)
             ELSE IF m.ok
             THEN ParseLines_Prepending(lines, i + 1, acc \o cur,
                                        <<NewQuestion(line, m, qid)>>, qid + 1)
             ELSE IF cur # <<>> /\ opt # <<>>
             THEN ParseLines_Prepending(lines, i + 1, acc,
                             <<[cur[1] EXCEPT !.options = <<opt>> \o @]>>, qid)
             ELSE ParseLines_Prepending(lines, i + 1, acc, cur, qid)

\* fault: a line that yields no option is attached to the open question as
\* it stands
RECURSIVE ParseLines_KeepsUnrecognized(_, _, _, _, _)
ParseLines_KeepsUnrecognized(lines, i, acc, cur, qid) ==
    IF i > Len(lines) THEN FlushLast(acc, cur)
    ELSE LET line == Trim(lines[i])
             m    == QuestionMatch(line)
             opt  == OptionOf(line)
         IN  IF line = <<>>
             THEN ParseLines_KeepsUnrecognized(lines, i + 1, acc, cur, qid)
             ELSE IF m.ok
             THEN ParseLines_KeepsUnrecognized(lines, i + 1, acc \o cur,
                             <<NewQuestion(line, m, qid)>>, qid + 1)
             ELSE IF cur # <<>>
             THEN ParseLines_KeepsUnrecognized(lines, i + 1, acc,
                             <<[cur[1] EXCEPT !.options =
                                   Append(@, IF opt # <<>> THEN opt ELSE line)]>>,
                             qid)
             ELSE ParseLines_KeepsUnrecognized(lines, i + 1, acc, cur, qid)

\* fault: the lines after the boundary line of an open question are dropped
RECURSIVE ParseLines_OpenSkips(_, _, _, _, _)
ParseLines_OpenSkips(lines, i, acc, cur, qid) ==
    IF i > Len(lines) THEN FlushLast(acc, cur)
    ELSE LET line == Trim(lines[i])
             m    == QuestionMatch(line)
             opt  == OptionOf(line)
         IN  IF line = <<>> THEN ParseLines_OpenSkips(lines, i + 1, acc, cur, qid)
             ELSE IF m.ok
             THEN ParseLines_OpenSkips(lines, i + 1, acc \o cur,
                                       <<NewQuestion(line, m, qid)>>, qid + 1)
             ELSE IF cur # <<>> /\ opt # <<>> /\ ~cur[1].isOpen
             THEN ParseLines_OpenSkips(lines, i + 1, acc,
                             <<[cur[1] EXCEPT !.options = Append(@, opt)]>>, qid)
             ELSE ParseLines_OpenSkips(lines, i + 1, acc, cur, qid)

\* the loop over the lines; cur is <<>> (no current question) or <<q>>
RECURSIVE ParseLines(_, _, _, _, _)
ParseLines(lines, i, acc, cur, qid) ==
    IF i > Len(lines) THEN FlushLast(acc, cur)
    ELSE LET line == Trim(lines[i])
             m    == QuestionMatch(line)
             opt  == OptionOf(line)
         IN  IF line = <<>> THEN ParseLines(lines, i + 1, acc, cur, qid)
             ELSE IF m.ok
             THEN ParseLines(lines, i + 1, acc \o cur,
                             <<NewQuestion(line, m, qid)>>, qid + 1)
             ELSE IF cur # <<>> /\ opt # <<>>
             THEN ParseLines(lines, i + 1, acc,
                             <<[cur[1] EXCEPT !.options = Append(@, opt)]>>, qid)
             ELSE ParseLines(lines, i + 1, acc, cur, qid)

\* ----------------------------------------------------- pre-normalization
Quotes == {SQ, DQ}

\* .replace(/^\[|\]$/g, '') and .replace(/^['"]|['"]$/g, ''): one character
\* of class l dropped at the start and one of class r at the end
StripEnds(s, l, r) ==
    LET t == IF s # <<>> /\ s[1] \in l THEN Tail(s) ELSE s
    IN  IF t # <<>> /\ t[Len(t)] \in r THEN SubSeq(t, 1, Len(t) - 1) ELSE t

\* /['"]\s*,\s*['"]/ anchored at i: the length matched, 0 when none
SeparatorLen(s, i) ==
    IF i <= Len(s) /\ s[i] \in Quotes
    THEN LET c == i + 1 + WsRun(s, i + 1)
             e == c + 1 + WsRun(s, c + 1)
         IN  IF c <= Len(s) /\ s[c] = "," /\ e <= Len(s) /\ s[e] \in Quotes
             THEN e - i + 1 ELSE 0
    ELSE 0

\* .replace(/['"]\s*,\s*['"]/g, '\n')
RECURSIVE ReplaceSeparators(_, _)
ReplaceSeparators(s, i) ==
    IF i > Len(s) THEN <<>>
    ELSE LET n == SeparatorLen(s, i)
         IN  IF n > 0 THEN <<NL>> \o ReplaceSeparators(s, i + n)
             ELSE <<s[i]>> \o ReplaceSeparators(s, i + 1)

\* .replace(/\\n/g, '\n')
RECURSIVE UnescapeNewlines(_, _)
UnescapeNewlines(s, i) ==
    IF i > Len(s) THEN <<>>
    ELSE IF HasAt(s, i, <<BSL, "n">>) THEN <<NL>> \o UnescapeNewlines(s, i + 2)
    ELSE <<s[i]>> \o UnescapeNewlines(s, i + 1)

\* whether the draft looks like a serialized array of quoted strings
LooksLikeArray(draft) ==
    Includes(draft, <<SQ, ",", " ", SQ>>) \/ Includes(draft, <<DQ, ",", " ", DQ>>)

\* processedDraft
PreNormalize(draft) ==
    IF LooksLikeArray(draft)
    THEN UnescapeNewlines(
           ReplaceSeparators(
             StripEnds(StripEnds(draft, {"["}, {"]"}), Quotes, Quotes), 1), 1)
    ELSE draft

\* the lines the classifier sees
DraftLines(draft) == Split(PreNormalize(draft), NL)

parseSurveyDraft(draft) ==
    IF draft = <<>> \/ Trim(draft) = <<>> THEN <<>>
    ELSE ParseLines(DraftLines(draft), 1, <<>>, <<>>, 0)

\* ------------------------------------------------------- group paginator
groupSize == 10

Min(a, b) == IF a < b THEN a ELSE b

\* fault: endNum is not clamped to the length of the sequence
GroupAt_Unclamped(qs, i) ==
    [ startNum   |-> i + 1,
      endNum     |-> i + groupSize,
      questions  |-> SubSeq(qs, i + 1, Min(i + groupSize, Len(qs))),
      isExpanded |-> (i = 0) ]

\* fault: every group starts expanded
GroupAt_AllExpanded(qs, i) ==
    [ startNum   |-> i + 1,
      endNum     |-> Min(i + groupSize, Len(qs)),
      questions  |-> SubSeq(qs, i + 1, Min(i + groupSize, Len(qs))),
      isExpanded |-> TRUE ]

\* the group pushed by the loop iteration that starts at 0-based index i
GroupAt(qs, i) ==
    [ startNum   |-> i + 1,
      endNum     |-> Min(i + groupSize, Len(qs)),
      questions  |-> SubSeq(qs, i + 1, Min(i + groupSize, Len(qs))),
      isExpanded |-> (i = 0) ]

RECURSIVE GroupsFrom(_, _)
GroupsFrom(qs, i) ==
    IF i < Len(qs) THEN <<GroupAt(qs, i)>> \o GroupsFrom(qs, i + groupSize)
    ELSE <<>>

groupQuestions(qs) == GroupsFrom(qs, 0)

\* --------------------------------------------------- canonical serializer
OpenPlaceholderLine == <<" ", " ", " ", "[", JU, GWAN, SIK, " ", EUNG, DAP, "]", NL>>

\* fault: past the glyphs the 0-based index is printed
OptionMarker_ZeroBased(optIdx) ==
    IF optIdx < 12 THEN <<circledNumbers[optIdx + 1]>>
    ELSE <<"(">> \o ToDecimal(optIdx) \o <<")">>

\* the marker of the option at 0-based index optIdx
OptionMarker(optIdx) ==
    IF optIdx < 12 THEN <<circledNumbers[optIdx + 1]>>
    ELSE <<"(">> \o ToDecimal(optIdx + 1) \o <<")">>

\* `   ${num} ${cleanOpt}\n`
OptionLine(opt, optIdx) ==
    <<" ", " ", " ">> \o OptionMarker(optIdx) \o <<" ">>
      \o Trim(StripLeadingGlyph(opt)) \o <<NL>>

\* q.options.forEach: the callback is not called for the holes of a sparse
\* array, and the index it receives is the slot's own
RECURSIVE OptionLines(_, _)
OptionLines(opts, k) ==
    IF k > Len(opts) THEN <<>>
    ELSE IF opts[k] = <<"<empty>">> THEN OptionLines(opts, k + 1)
    ELSE OptionLine(opts[k], k - 1) \o OptionLines(opts, k + 1)

\* opt.replace(...) on an undefined slot raises a TypeError
questionsToTextThrows(qs) ==
    \E i \in 1..Len(qs) :
        /\ ~qs[i].isOpen
        /\ \E k \in 1..Len(qs[i].options) : qs[i].options[k] = <<"<undefined>">>

\* fault: the label is the number the question was parsed with
QuestionLine_OwnNumber(q, idx) ==
    q.number \o <<".", " ">> \o q.text \o <<" ", "(">> \o q.type
      \o <<")", NL>>

\* `${idx + 1}. ${q.text} (${q.type})\n`
QuestionLine(q, idx) ==
    ToDecimal(idx + 1) \o <<".", " ">> \o q.text \o <<" ", "(">> \o q.type
      \o <<")", NL>>

\* fault: the options of an open question are written as well
QuestionBlock_OptionsFirst(q, idx) ==
    QuestionLine(q, idx)
      \o (IF Len(q.options) > 0 THEN OptionLines(q.options, 1)
          ELSE IF q.isOpen THEN OpenPlaceholderLine
          ELSE <<>>)
      \o <<NL>>

\* the block one forEach iteration appends for the question at index idx
QuestionBlock(q, idx) ==
    QuestionLine(q, idx)
      \o (IF ~q.isOpen /\ Len(q.options) > 0 THEN OptionLines(q.options, 1)
          ELSE IF q.isOpen THEN OpenPlaceholderLine
          ELSE <<>>)
      \o <<NL>>

RECURSIVE BlocksFrom(_, _)
BlocksFrom(qs, k) ==
    IF k > Len(qs) THEN <<>>
    ELSE QuestionBlock(qs[k], k - 1) \o BlocksFrom(qs, k + 1)

questionsToText(qs) == BlocksFrom(qs, 1)

\* ===================================================================
\* The component and the store as a state machine
\* ===================================================================
VARIABLES
    sessionId,        \* store: the session identifier, Null until a response
    surveyState,      \* store: the survey_draft and final_survey fields
    questions,        \* component: the flat question sequence
    questionGroups,   \* component: the grouped view
    hasLocalChanges,  \* component: the dirty flag
    isSaving,         \* component
    isExporting,      \* component
    saves,            \* saveChanges invocations suspended at an await
    exports,          \* exportSurvey invocations awaiting their outcome
    nEdits,           \* number of edit operations applied so far
    nResponses        \* number of upstream responses received so far

vars == <<sessionId, surveyState, questions, questionGroups, hasLocalChanges,
          isSaving, isExporting, saves, exports, nEdits, nResponses>>

\* ---------------------------------------------------------------- bounds
MaxEdits     == 2    \* edit operations per run
MaxResponses == 2    \* upstream responses per run
MaxSaves     == 2    \* saveChanges invocations suspended at the same time
MaxExports   == 1    \* handleExport invocations in progress at the same time
MaxIdx       == 1    \* largest option / group index an event may carry
MaxQuestions == 23   \* the longest draft of only boundary lines

Null == "null"

\* array slots that are not strings: a hole of a sparse array, and undefined
Hole  == <<"<empty>">>
Undef == <<"<undefined>">>

\* '새 선택지'
NewOptionText == <<SAE, " ", SEON, TAEK, JI>>

\* draft = surveyDraft || finalSurvey, for string-valued fields
getSurveyContent(st) ==
    IF st.survey_draft # <<>> THEN st.survey_draft ELSE st.final_survey

surveyContent == getSurveyContent(surveyState)

\* ------------------------------------------------------------ edit steps
\* [...q.options]: spreading turns the holes of a sparse array into undefined
Spread(opts) == [i \in 1..Len(opts) |-> IF opts[i] = Hole THEN Undef ELSE opts[i]]

\* newOptions[optionIdx] = newText, which lengthens the array with holes
\* when optionIdx is past its end
SetIndex(opts, idx, t) ==
    [i \in 1..(IF idx + 1 > Len(opts) THEN idx + 1 ELSE Len(opts)) |->
        IF i = idx + 1 THEN t
        ELSE IF i <= Len(opts) THEN opts[i]
        ELSE Hole]

\* q.options.filter((_, idx) => idx !== optionIdx): holes are not visited
RECURSIVE FilterOut(_, _, _)
FilterOut(opts, idx, i) ==
    IF i > Len(opts) THEN <<>>
    ELSE IF i = idx + 1 \/ opts[i] = Hole THEN FilterOut(opts, idx, i + 1)
    ELSE <<opts[i]>> \o FilterOut(opts, idx, i + 1)

\* fault: the id is not compared
SetText_Everywhere(q, questionId, newText) == [q EXCEPT !.text = newText]

SetText(q, questionId, newText) ==
    IF q.id = questionId THEN [q EXCEPT !.text = newText] ELSE q

SetOption(q, questionId, optionIdx, newText) ==
    IF q.id = questionId
    THEN [q EXCEPT !.options = SetIndex(Spread(q.options), optionIdx, newText)]
    ELSE q

\* fault: the placeholder is put in front of the options
PushOption_InFront(q, questionId) ==
    IF q.id = questionId
    THEN [q EXCEPT !.options = <<NewOptionText>> \o Spread(q.options)]
    ELSE q

PushOption(q, questionId) ==
    IF q.id = questionId
    THEN [q EXCEPT !.options = Append(Spread(q.options), NewOptionText)]
    ELSE q

\* fault: the last option is removed, whatever the index
DropOption_Last(q, questionId, optionIdx) ==
    IF q.id = questionId
    THEN [q EXCEPT !.options = FilterOut(q.options, Len(q.options) - 1, 1)]
    ELSE q

DropOption(q, questionId, optionIdx) ==
    IF q.id = questionId
    THEN [q EXCEPT !.options = FilterOut(q.options, optionIdx, 1)]
    ELSE q

\* prev.map(f) on the flat sequence
MapQuestions(qs, f(_)) == [i \in 1..Len(qs) |-> f(qs[i])]

\* prev.map(g => ({...g, questions: g.questions.map(f)})) on the grouped view
MapGroups(gs, f(_)) ==
    [k \in 1..Len(gs) |-> [gs[k] EXCEPT !.questions = MapQuestions(@, f)]]

\* what every edit handler leaves alone, and the budget of edits
EditFrame ==
    /\ nEdits < MaxEdits
    /\ nEdits' = nEdits + 1
    /\ UNCHANGED <<sessionId, surveyState, isSaving, isExporting, saves, exports,
                   nResponses>>

updateQuestionText(questionId, newText) ==
    /\ questions' = MapQuestions(questions, LAMBDA q : SetText(q, questionId, newText))
    /\ questionGroups' =
          MapGroups(questionGroups, LAMBDA q : SetText(q, questionId, newText))
    /\ hasLocalChanges' = TRUE
    /\ EditFrame

\* fault: the option is replaced in the flat sequence only
updateOption_FlatOnly(questionId, optionIdx, newText) ==
    /\ questions' =
          MapQuestions(questions, LAMBDA q : SetOption(q, questionId, optionIdx, newText))
    /\ questionGroups' = questionGroups
    /\ hasLocalChanges' = TRUE
    /\ EditFrame

updateOption(questionId, optionIdx, newText) ==
    /\ questions' =
          MapQuestions(questions, LAMBDA q : SetOption(q, questionId, optionIdx, newText))
    /\ questionGroups' =
          MapGroups(questionGroups,
                    LAMBDA q : SetOption(q, questionId, optionIdx, newText))
    /\ hasLocalChanges' = TRUE
    /\ EditFrame

\* fault: the option is appended without marking the model as changed
addOption_FlagKept(questionId) ==
    /\ questions' = MapQuestions(questions, LAMBDA q : PushOption(q, questionId))
    /\ questionGroups' =
          MapGroups(questionGroups, LAMBDA q : PushOption(q, questionId))
    /\ hasLocalChanges' = hasLocalChanges
    /\ EditFrame

addOption(questionId) ==
    /\ questions' = MapQuestions(questions, LAMBDA q : PushOption(q, questionId))
    /\ questionGroups' =
          MapGroups(questionGroups, LAMBDA q : PushOption(q, questionId))
    /\ hasLocalChanges' = TRUE
    /\ EditFrame

removeOption(questionId, optionIdx) ==
    /\ questions' =
          MapQuestions(questions, LAMBDA q : DropOption(q, questionId, optionIdx))
    /\ questionGroups' =
          MapGroups(questionGroups, LAMBDA q : DropOption(q, questionId, optionIdx))
    /\ hasLocalChanges' = TRUE
    /\ EditFrame

\* fault: the flag of every group from groupIdx on is negated
toggleGroup_FromIdx(groupIdx) ==
    /\ questionGroups' =
          [k \in 1..Len(questionGroups) |->
              IF k - 1 >= groupIdx
              THEN [questionGroups[k] EXCEPT !.isExpanded = ~@]
              ELSE questionGroups[k]]
    /\ UNCHANGED <<sessionId, surveyState, questions, hasLocalChanges, isSaving,
                   isExporting, saves, exports, nEdits, nResponses>>

toggleGroup(groupIdx) ==
    /\ questionGroups' =
          [k \in 1..Len(questionGroups) |->
              IF k - 1 = groupIdx
              THEN [questionGroups[k] EXCEPT !.isExpanded = ~@]
              ELSE questionGroups[k]]
    /\ UNCHANGED <<sessionId, surveyState, questions, hasLocalChanges, isSaving,
                   isExporting, saves, exports, nEdits, nResponses>>

\* fault: the derivation leaves the dirty flag as it is
Rederive_FlagKept(newState) ==
    IF getSurveyContent(newState) # surveyContent
    THEN /\ questions' = parseSurveyDraft(getSurveyContent(newState))
         /\ questionGroups' = groupQuestions(questions')
         /\ hasLocalChanges' = hasLocalChanges
    ELSE UNCHANGED <<questions, questionGroups, hasLocalChanges>>

\* ------------------------------------------------------- re-derivation
\* the effect on surveyContent: it runs when the content differs from the
\* content of the previous render
Rederive(newState) ==
    IF getSurveyContent(newState) # surveyContent
    THEN /\ questions' = parseSurveyDraft(getSurveyContent(newState))
         /\ questionGroups' = groupQuestions(questions')
         /\ hasLocalChanges' = FALSE
    ELSE UNCHANGED <<questions, questionGroups, hasLocalChanges>>

\* ------------------------------------------------------- save and export
\* A suspended saveChanges invocation is a record: the text it serialized,
\* the field of its outstanding updateField call, and the format of the
\* handleExport that awaits it ("none" when the save was invoked directly).
\* An outstanding exportSurvey call is a record: its format, and how the
\* save that its handleExport awaited ended ("none" when it awaited none).

RemoveAt(seq, i) == SubSeq(seq, 1, i - 1) \o SubSeq(seq, i + 1, Len(seq))

\* handleExport past its `await saveChanges()`: setIsExporting(true) and the
\* exportSurvey call
ContinueExport(format, awaited) ==
    IF format = "none"
    THEN UNCHANGED <<exports, isExporting>>
    ELSE /\ exports' = Append(exports, [format |-> format, awaited |-> awaited])
         /\ isExporting' = TRUE

\* fault: a save entered while others are in flight takes their place
BeginSave_Supersedes(format) ==
    IF questionsToTextThrows(questions)
    THEN /\ ContinueExport(format, "threw")
         /\ UNCHANGED <<isSaving, saves>>
    ELSE /\ Len(saves) < MaxSaves
         /\ saves' = <<[text   |-> questionsToText(questions),
                        stage  |-> "survey_draft",
                        format |-> format]>>
         /\ isSaving' = TRUE
         /\ UNCHANGED <<exports, isExporting>>

\* saveChanges up to its first await, entered with the dirty flag set and a
\* session known
BeginSave(format) ==
    IF questionsToTextThrows(questions)
    THEN \* caught at once: setIsSaving(true) is undone by the finally block
         /\ ContinueExport(format, "threw")
         /\ UNCHANGED <<isSaving, saves>>
    ELSE /\ Len(saves) < MaxSaves
         /\ saves' = Append(saves, [text   |-> questionsToText(questions),
                                    stage  |-> "survey_draft",
                                    format |-> format])
         /\ isSaving' = TRUE
         /\ UNCHANGED <<exports, isExporting>>

\* fault: the dirty flag is not looked at
saveChanges_AnyFlag ==
    /\ IF sessionId = Null
       THEN UNCHANGED <<isSaving, isExporting, saves, exports>>
       ELSE BeginSave("none")
    /\ UNCHANGED <<sessionId, surveyState, questions, questionGroups,
                   hasLocalChanges, nEdits, nResponses>>

saveChanges ==
    /\ IF sessionId = Null \/ ~hasLocalChanges
       THEN UNCHANGED <<isSaving, isExporting, saves, exports>>
       ELSE BeginSave("none")
    /\ UNCHANGED <<sessionId, surveyState, questions, questionGroups,
                   hasLocalChanges, nEdits, nResponses>>

\* the first updateField resolves: the second one is issued
DraftPersisted(i) ==
    /\ i \in 1..Len(saves) /\ saves[i].stage = "survey_draft"
    /\ saves' = [saves EXCEPT ![i].stage = "final_survey"]
    /\ UNCHANGED <<sessionId, surveyState, questions, questionGroups,
                   hasLocalChanges, isSaving, isExporting, exports, nEdits,
                   nResponses>>

\* fault: only the draft field is mirrored
updateSurveyState_DraftOnly(st, text) == [st EXCEPT !.survey_draft = text]

\* updateSurveyState(updates): { ...state.surveyState, ...updates }
updateSurveyState(st, text) ==
    [st EXCEPT !.survey_draft = text, !.final_survey = text]

\* the second updateField resolves: mirror, clear the flag, finally block;
\* the effect re-derives the model when the mirrored content is new
FinalPersisted(i) ==
    /\ i \in 1..Len(saves) /\ saves[i].stage = "final_survey"
    /\ saves' = RemoveAt(saves, i)
    /\ surveyState' = updateSurveyState(surveyState, saves[i].text)
    /\ IF getSurveyContent(surveyState') # surveyContent
       THEN /\ questions' = parseSurveyDraft(getSurveyContent(surveyState'))
            /\ questionGroups' = groupQuestions(questions')
       ELSE UNCHANGED <<questions, questionGroups>>
    /\ hasLocalChanges' = FALSE
    /\ isSaving' = FALSE
    /\ ContinueExport(saves[i].format, "ok")
    /\ UNCHANGED <<sessionId, nEdits, nResponses>>

\* fault: the catch block clears the dirty flag
PersistRejected_FlagCleared(i) ==
    /\ i \in 1..Len(saves)
    /\ saves' = RemoveAt(saves, i)
    /\ isSaving' = FALSE
    /\ hasLocalChanges' = FALSE
    /\ ContinueExport(saves[i].format, "rejected")
    /\ UNCHANGED <<sessionId, surveyState, questions, questionGroups, nEdits,
                   nResponses>>

\* either updateField rejects: catch (alert) and finally
PersistRejected(i) ==
    /\ i \in 1..Len(saves)
    /\ saves' = RemoveAt(saves, i)
    /\ isSaving' = FALSE
    /\ ContinueExport(saves[i].format, "rejected")
    /\ UNCHANGED <<sessionId, surveyState, questions, questionGroups,
                   hasLocalChanges, nEdits, nResponses>>

handleExport(format) ==
    /\ Len(exports) + Cardinality({i \in 1..Len(saves) : saves[i].format # "none"})
          < MaxExports
    /\ IF sessionId = Null
       THEN UNCHANGED <<isSaving, isExporting, saves, exports>>
       ELSE IF hasLocalChanges
       THEN BeginSave(format)
       ELSE /\ ContinueExport(format, "none")
            /\ UNCHANGED <<isSaving, saves>>
    /\ UNCHANGED <<sessionId, surveyState, questions, questionGroups,
                   hasLocalChanges, nEdits, nResponses>>

\* fault: the settled export marks the model as unsaved again
ExportSettled_Dirty(i) ==
    /\ i \in 1..Len(exports)
    /\ exports' = RemoveAt(exports, i)
    /\ isExporting' = FALSE
    /\ hasLocalChanges' = TRUE
    /\ UNCHANGED <<sessionId, surveyState, questions, questionGroups,
                   isSaving, saves, nEdits, nResponses>>

\* exportSurvey resolves or rejects: finally setIsExporting(false)
ExportSettled(i) ==
    /\ i \in 1..Len(exports)
    /\ exports' = RemoveAt(exports, i)
    /\ isExporting' = FALSE
    /\ UNCHANGED <<sessionId, surveyState, questions, questionGroups,
                   hasLocalChanges, isSaving, saves, nEdits, nResponses>>

\* ----------------------------------------------------- upstream response
SessionIds == {"s1"}

\* updateFromResponse: the session id and the whole surveyState are replaced
updateFromResponse(sid, st) ==
    /\ nResponses < MaxResponses
    /\ nResponses' = nResponses + 1
    /\ sessionId' = sid
    /\ surveyState' = st
    /\ Rederive(st)
    /\ UNCHANGED <<isSaving, isExporting, saves, exports, nEdits>>

\* ------------------------------------------------------------- inputs
\* lines a draft is made of: boundary lines of both marker families, option
\* lines of every marker kind, and lines the classifier does not recognise
LinePool ==
    { <<MUN, HANG, " ", "1", ".", " ", "a", "?", " ", "(", "S", "C", ")">>,
      <<"Q", "2", ":", " ", "b", " ", "(", "o", "q", ")">>,
      <<"*", "*", MUN, HANG, "3", "-", "1", ".", "*", "*", " ", "[", "x", "]",
        " ", "c", " ", JU, GWAN, SIK>>,
      <<"c1", " ", "y">>,
      <<"(", "2", ")", " ", "n", " ", ARROW, " ", "Q", "3">>,
      <<"-", " ", "w", " ", "(", "M", "A", ")">>,
      <<"1", ".", " ", "k">>,
      <<WCIRC, " ", "c2">>,
      <<"-", "c3">>,
      <<"Q", "7">>,
      <<"t">>,
      <<" ">> }

\* Seq-like: the sequences over S of length 0 .. n
RECURSIVE SeqsUpTo(_, _)
SeqsUpTo(S, n) ==
    IF n = 0 THEN {<<>>}
    ELSE LET shorter == SeqsUpTo(S, n - 1)
         IN  shorter \cup {Append(t, x) : t \in {u \in shorter : Len(u) = n - 1},
                                          x \in S}

MaxLines == 3

\* a draft of n boundary lines "Q1. a"
LongDraft(n) == Join([i \in 1..n |-> <<"Q", "1", ".", " ", "a">>], <<NL>>)

\* drafts written as a serialized array of quoted strings
ArrayDrafts ==
    { <<"[", SQ, "Q", "1", ".", " ", "a", SQ, ",", " ", SQ, "c1", " ", "y",
        BSL, "n", "(", "2", ")", " ", "n", SQ, "]">>,
      <<DQ, "Q", "1", ".", " ", "a", DQ, ",", " ", DQ, "-", " ", "w", DQ>>,
      <<"Q", "1", ".", " ", "a", NL, "c1", " ", "y", SQ, ",", " ", SQ,
        "Q", "2", ".", " ", "b">> }

\* the scenario draft: a single-choice question with two options, then an
\* open question
ScenarioDraft ==
    <<MUN, HANG, " ", "1", ".", " ", "a", "?", " ", "(", "S", "C", ")", NL,
      "c1", " ", "y", NL, "c2", " ", "n", NL, NL,
      MUN, HANG, " ", "2", ".", " ", "b", " ", "(", "O", "Q", ")">>

\* drafts the upstream process delivers while the model is being edited
Drafts == { ScenarioDraft, LongDraft(23), <<"c1", " ", "y">> }

\* drafts with blank lines, a boundary marker without text, a dash glued to
\* a glyph, the circled-o bullet and a bullet character
OddDrafts ==
    { <<"Q", "1", ".", " ", "a", NL, " ", NL, "-", "c3", NL, CIRC0, "e", NL,
        "Q", "7", NL, BULLET, " ", "u", NL, "-", "c3", "v", NL, "1", "2", ")",
        " ", "c1", "h">>,
      <<" ", NL, " ">> }

\* a draft of one boundary line followed by n option lines "- w1", "- w2", ...
ManyOptionsDraft(n) ==
    Join(<< <<"Q", "1", ".", " ", "a">> >>
           \o [i \in 1..n |-> <<"-", " ", "w">> \o ToDecimal(i)], <<NL>>)

ParseDrafts ==
    {Join(ls, <<NL>>) : ls \in SeqsUpTo(LinePool, MaxLines)}
      \cup {LongDraft(n) : n \in 0..MaxQuestions}
      \cup ArrayDrafts \cup OddDrafts \cup Drafts
      \cup {ManyOptionsDraft(13)}

ParseResponseStates ==
    {[survey_draft |-> d, final_survey |-> <<>>] : d \in ParseDrafts}

ResponseStates ==
    {[survey_draft |-> d, final_survey |-> <<>>] : d \in Drafts}
      \cup {[survey_draft |-> <<>>, final_survey |-> ScenarioDraft]}

EditIds   == {QId(0), QId(1), QId(10)}
EditTexts == {<<"z">>}
Formats   == {"docx", "hwpx"}

\* the inputs of the specification with the network: one two-question draft
\* and one one-question draft, edits of the first question
NetResponseStates ==
    { [survey_draft |-> ScenarioDraft, final_survey |-> <<>>],
      [survey_draft |-> <<>>, final_survey |-> LongDraft(1)] }

NetEditIds == {QId(0)}

\* ------------------------------------------------------- specifications
\* the component just mounted over an empty store
Init ==
    /\ sessionId = Null
    /\ surveyState = [survey_draft |-> <<>>, final_survey |-> <<>>]
    /\ questions = <<>>
    /\ questionGroups = <<>>
    /\ hasLocalChanges = FALSE
    /\ isSaving = FALSE
    /\ isExporting = FALSE
    /\ saves = <<>>
    /\ exports = <<>>
    /\ nEdits = 0
    /\ nResponses = 0

UpstreamStep(states) ==
    \E sid \in SessionIds, st \in states : updateFromResponse(sid, st)

ToggleStep == \E k \in 0..MaxIdx : toggleGroup(k)

EditStep(ids) ==
    \/ \E id \in ids, t \in EditTexts : updateQuestionText(id, t)
    \/ \E id \in ids, i \in 0..MaxIdx, t \in EditTexts : updateOption(id, i, t)
    \/ \E id \in ids : addOption(id)
    \/ \E id \in ids, i \in 0..MaxIdx : removeOption(id, i)

NetworkStep ==
    \/ saveChanges
    \/ \E i \in 1..Len(saves) : DraftPersisted(i)
    \/ \E i \in 1..Len(saves) : FinalPersisted(i)
    \/ \E i \in 1..Len(saves) : PersistRejected(i)
    \/ \E f \in Formats : handleExport(f)
    \/ \E i \in 1..Len(exports) : ExportSettled(i)

\* every event: responses, toggles, edits, saves and exports
Next ==
    \/ UpstreamStep(NetResponseStates)
    \/ ToggleStep
    \/ EditStep(NetEditIds)
    \/ NetworkStep

Spec == Init /\ [][Next]_vars

\* the editing session without the network, over more drafts and ids
NextEdit ==
    \/ UpstreamStep(ResponseStates)
    \/ ToggleStep
    \/ EditStep(EditIds)

SpecEdit == Init /\ [][NextEdit]_vars

\* the parser, the paginator and the serializer applied to bounded inputs:
\* the first response delivers any of the drafts of ParseDrafts
NextParse ==
    \/ nResponses = 0 /\ UpstreamStep(ParseResponseStates)
    \/ ToggleStep

SpecParse == Init /\ [][NextParse]_vars

\* ===================================================================
\* Properties
\* ===================================================================

\* ---- helpers of the properties
\* the lines of the draft text as written, trimmed, before any normalization
WrittenLines(d) == [i \in 1..Len(Split(d, NL)) |-> Trim(Split(d, NL)[i])]

\* the written lines that match a question-boundary pattern
BoundaryLines(d) ==
    {i \in 1..Len(WrittenLines(d)) : QuestionMatch(WrittenLines(d)[i]).ok}

\* a draft whose non-blank lines are boundary lines and option lines only,
\* and which is plain text rather than a serialized array of quoted strings
WellFormedDraft(d) ==
    /\ ~LooksLikeArray(d)
    /\ \A i \in 1..Len(WrittenLines(d)) :
          \/ WrittenLines(d)[i] = <<>>
          \/ QuestionMatch(WrittenLines(d)[i]).ok
          \/ OptionOf(WrittenLines(d)[i]) # <<>>

\* the groups' slices put one after the other, in group order
RECURSIVE FlattenGroups(_, _)
FlattenGroups(gs, k) ==
    IF k > Len(gs) THEN <<>>
    ELSE gs[k].questions \o FlattenGroups(gs, k + 1)

\* the options as reading them slot by slot returns them: an empty slot
\* reads as undefined
AsRead(opts) == [i \in 1..Len(opts) |-> IF opts[i] = Hole THEN Undef ELSE opts[i]]

\* the step re-derives the model: the content the effect depends on changes
Rederives == getSurveyContent(surveyState') # getSurveyContent(surveyState)

\* ---- C1
\* C1 (round trip): for every draft d, parsing the text the serializer
\* produces from parseSurveyDraft(d) yields as many questions as
\* parseSurveyDraft(d), each with the same options in the same order.
\* Stated of the draft the store holds; it does not hold.
C1_RoundTrip ==
    LET parsed   == parseSurveyDraft(surveyContent)
        reparsed == parseSurveyDraft(questionsToText(parsed))
    IN  /\ Len(reparsed) = Len(parsed)
        /\ \A i \in 1..Len(parsed) : reparsed[i].options = parsed[i].options

\* ---- C2
\* C2 (export never reflects stale edits): an exportSurvey call issued by a
\* handleExport that found the dirty flag set is issued only after the save
\* it awaited persisted both fields; none is issued after a persist call of
\* that save rejected.  It does not hold.
C2_NoExportAfterFailedSave ==
    \A k \in 1..Len(exports) : exports[k].awaited # "rejected"

\* ---- C3
\* C3 (save failure keeps edits): in the step in which a save ends because a
\* persist call rejected, the dirty flag is not cleared, the question
\* sequence and the grouped view are unchanged and the upstream survey state
\* is not mirrored; the save is gone, so that no final-field call follows a
\* rejected draft-field call.
C3_SaveFailureKeepsEdits ==
    [][ \A i \in 1..Len(saves) :
          PersistRejected(i) =>
             /\ hasLocalChanges' = hasLocalChanges
             /\ questions' = questions
             /\ questionGroups' = questionGroups
             /\ surveyState' = surveyState
             /\ Len(saves') = Len(saves) - 1
             /\ \A j \in 1..Len(saves') :
                   saves'[j].stage = "final_survey" =>
                      \E h \in 1..Len(saves) : h # i /\ saves[h] = saves'[j]
      ]_vars

\* a save was rejected and the edits it was to persist are still there,
\* still marked unsaved
C3_Witness ==
    /\ hasLocalChanges
    /\ saves = <<>>
    /\ \E k \in 1..Len(exports) : exports[k].awaited = "rejected"
    /\ \E j \in 1..Len(questions) :
          Len(questions[j].options) > 0
            /\ questions[j].options[Len(questions[j].options)] = NewOptionText

\* ---- C4
\* C4 (save ordering): a save starts with the draft-field call, carrying the
\* serialization of the current model; the final-field call is issued only
\* by a save whose draft-field call resolved, with the same text; the mirror
\* into the upstream state and the clearing of the flag by a save happen
\* only in the step in which its final-field call resolves, and both fields
\* of the mirror receive that same text.
C4_SaveOrdering ==
    [][ /\ Len(saves') > Len(saves) =>
             /\ saves' = Append(saves, saves'[Len(saves')])
             /\ saves'[Len(saves')].stage = "survey_draft"
             /\ saves'[Len(saves')].text = questionsToText(questions)
        /\ Len(saves') = Len(saves) =>
             \A i \in 1..Len(saves) :
                saves'[i] # saves[i] =>
                   /\ saves[i].stage = "survey_draft"
                   /\ saves'[i] = [saves[i] EXCEPT !.stage = "final_survey"]
        /\ ( /\ nResponses' = nResponses
             /\ \/ surveyState' # surveyState
                \/ hasLocalChanges /\ ~hasLocalChanges' ) =>
             \E i \in 1..Len(saves) :
                /\ saves[i].stage = "final_survey"
                /\ saves' = RemoveAt(saves, i)
                /\ surveyState'.survey_draft = saves[i].text
                /\ surveyState'.final_survey = saves[i].text
                /\ ~hasLocalChanges'
      ]_vars

\* a save ran to its end: both fields hold the same serialized text
C4_Witness ==
    /\ surveyState.survey_draft # <<>>
    /\ surveyState.survey_draft = surveyState.final_survey
    /\ ~hasLocalChanges
    /\ saves = <<>>

\* ---- C5
\* C5 (dual-view consistency): in every reachable state the slices of the
\* groups, one after the other in group order, are the flat question
\* sequence, question by question.
C5_DualView == FlattenGroups(questionGroups, 1) = questions

\* an edited question of the second group, the same in both views
C5_Witness ==
    /\ hasLocalChanges
    /\ Len(questionGroups) = 3
    /\ ~questionGroups[1].isExpanded
    /\ questions[11].text = <<"z">>
    /\ questionGroups[2].questions[1].text = <<"z">>

C7_GroupBoundaries ==
    LET n == Len(questions)
        g == Len(questionGroups)
    IN  /\ g = (n + 9) \div 10
        /\ n = 0 => questionGroups = <<>>
        /\ \A k \in 1..g :
              /\ questionGroups[k].startNum = 10 * (k - 1) + 1
              /\ questionGroups[k].endNum = (IF 10 * k < n THEN 10 * k ELSE n)
              /\ Len(questionGroups[k].questions) =
                    questionGroups[k].endNum - questionGroups[k].startNum + 1
              /\ k < g => questionGroups[k].endNum % 10 = 0
              /\ k = g => questionGroups[k].endNum = n

\* 23 questions: the last of the three groups is [21, 23]
C7_Witness ==
    /\ Len(questions) = 23
    /\ Len(questionGroups) = 3
    /\ questionGroups[2].endNum = 20
    /\ questionGroups[3].startNum = 21
    /\ questionGroups[3].endNum = 23
    /\ Len(questionGroups[3].questions) = 3

\* ---- C8
\* C8 (first group expanded): right after every derivation of the model from
\* draft text, the first group is expanded and no other group is.
C8_OnlyFirstExpanded ==
    [][ Rederives =>
          \A k \in 1..Len(questionGroups') :
             questionGroups'[k].isExpanded = (k = 1)
      ]_vars

\* the model derived a second time, from the draft of 23 questions: groups
\* [1,10], [11,20], [21,23], the first one expanded only
C8_Witness ==
    /\ nResponses = 2
    /\ ~hasLocalChanges
    /\ [k \in 1..Len(questionGroups) |->
          <<questionGroups[k].startNum, questionGroups[k].endNum,
            questionGroups[k].isExpanded>>]
         = << <<1, 10, TRUE>>, <<11, 20, FALSE>>, <<21, 23, FALSE>> >>

\* ---- C9
\* C9 (toggle frame): toggleGroup(k) negates isExpanded of the group of index
\* k and of no other; startNum, endNum and the slice of every group, the flat
\* sequence and the dirty flag stay as they are; an index past the last
\* group changes nothing.
C9_ToggleFrame ==
    [][ \A k \in 0..MaxIdx :
          toggleGroup(k) =>
             /\ Len(questionGroups') = Len(questionGroups)
             /\ \A j \in 1..Len(questionGroups) :
                   /\ questionGroups'[j].isExpanded =
                         (IF j - 1 = k THEN ~questionGroups[j].isExpanded
                          ELSE questionGroups[j].isExpanded)
                   /\ questionGroups'[j].startNum = questionGroups[j].startNum
                   /\ questionGroups'[j].endNum = questionGroups[j].endNum
                   /\ questionGroups'[j].questions = questionGroups[j].questions
             /\ questions' = questions
             /\ hasLocalChanges' = hasLocalChanges
             /\ k >= Len(questionGroups) => questionGroups' = questionGroups
      ]_vars

\* the second group was expanded while the first one stayed as derived, and
\* the edits made before are still marked
C9_Witness ==
    /\ Len(questionGroups) = 3
    /\ questionGroups[1].isExpanded
    /\ questionGroups[2].isExpanded
    /\ ~questionGroups[3].isExpanded
    /\ hasLocalChanges

\* ---- C10
\* C10 (addOption): addOption(id) makes the options of the question with that
\* id its previous options followed by the placeholder string, in the flat
\* sequence and in the grouped view, and the dirty flag is true afterwards.
C10_AddOptionAppends ==
    [][ \A id \in EditIds :
          addOption(id) =>
             /\ \A j \in 1..Len(questions) :
                   questions[j].id = id =>
                      questions'[j].options =
                         Append(AsRead(questions[j].options), NewOptionText)
             /\ \A k \in 1..Len(questionGroups) :
                   \A j \in 1..Len(questionGroups[k].questions) :
                      questionGroups[k].questions[j].id = id =>
                         questionGroups'[k].questions[j].options =
                            Append(AsRead(questionGroups[k].questions[j].options),
                                   NewOptionText)
             /\ hasLocalChanges'
      ]_vars

\* the first question of the scenario draft after addOption: its two options,
\* then the placeholder, in both views
C10_Witness ==
    /\ hasLocalChanges
    /\ Len(questions) = 2
    /\ Len(questions[1].options) = 3
    /\ questions[1].options[3] = NewOptionText
    /\ questions[1].options[1] # NewOptionText
    /\ questionGroups[1].questions[1].options = questions[1].options

\* ---- C11
\* every slot of the options holds a value (none is an empty slot)
Dense(opts) == \A i \in 1..Len(opts) : opts[i] # Hole

\* the sequence without its element of 0-based index i
Without(opts, i) == SubSeq(opts, 1, i) \o SubSeq(opts, i + 2, Len(opts))

\* C11 (removeOption): removeOption(id, i) with 0 <= i < number of options
\* makes the options of the question with that id its previous options
\* without the one at index i, the others in their order, one option fewer,
\* in the flat sequence and in the grouped view.  Stated of option lists
\* without empty slots.
C11_RemoveOptionRemovesOne ==
    [][ \A id \in EditIds : \A i \in 0..MaxIdx :
          removeOption(id, i) =>
             /\ \A j \in 1..Len(questions) :
                   ( /\ questions[j].id = id
                     /\ i < Len(questions[j].options)
                     /\ Dense(questions[j].options) ) =>
                      /\ questions'[j].options = Without(questions[j].options, i)
                      /\ Len(questions'[j].options) = Len(questions[j].options) - 1
             /\ \A k \in 1..Len(questionGroups) :
                   \A j \in 1..Len(questionGroups[k].questions) :
                      ( /\ questionGroups[k].questions[j].id = id
                        /\ i < Len(questionGroups[k].questions[j].options)
                        /\ Dense(questionGroups[k].questions[j].options) ) =>
                         questionGroups'[k].questions[j].options =
                            Without(questionGroups[k].questions[j].options, i)
      ]_vars

\* the first question of the scenario draft without the first of its two
\* options, in both views
C11_Witness ==
    /\ hasLocalChanges
    /\ Len(questions) = 2
    /\ questions[1].options = << <<"n">> >>
    /\ questionGroups[1].questions[1].options = << <<"n">> >>

\* ---- C12
\* C12 (save availability): saveChanges invoked while the dirty flag is false
\* or no session identifier is known issues no persist call and leaves the
\* dirty flag, isSaving, the model and the upstream state as they are.
C12_SaveUnavailable ==
    [][ ( saveChanges /\ (sessionId = Null \/ ~hasLocalChanges) ) =>
          /\ saves' = saves
          /\ hasLocalChanges' = hasLocalChanges
          /\ isSaving' = isSaving
          /\ questions' = questions
          /\ questionGroups' = questionGroups
          /\ surveyState' = surveyState
          /\ exports' = exports
      ]_vars

\* edits were made before any response brought a session: the flag is set,
\* and no save has been started
C12_Witness ==
    /\ sessionId = Null
    /\ hasLocalChanges
    /\ nEdits = 2
    /\ saves = <<>>
    /\ ~isSaving

\* ---- C13
\* C13 (re-derivation discards edits): in every step in which the upstream
\* draft text changes, the flat sequence becomes the parse of the new text,
\* the grouped view becomes the grouping of that parse, whatever edits the
\* model held, and the dirty flag becomes false.
C13_RederivationReplaces ==
    [][ Rederives =>
          /\ questions' = parseSurveyDraft(getSurveyContent(surveyState'))
          /\ questionGroups' = groupQuestions(questions')
          /\ ~hasLocalChanges'
      ]_vars

\* edits were applied, then a response with another text replaced the model
C13_Witness ==
    /\ nResponses = 2
    /\ nEdits = 2
    /\ ~hasLocalChanges
    /\ questions # <<>>
    /\ questions = parseSurveyDraft(surveyContent)

\* ---- C14
\* a step of one of the four edit operations
AnyEdit ==
    \E id \in EditIds :
       \/ \E t \in EditTexts : updateQuestionText(id, t)
       \/ \E i \in 0..MaxIdx : \E t \in EditTexts : updateOption(id, i, t)
       \/ addOption(id)
       \/ \E i \in 0..MaxIdx : removeOption(id, i)

\* C14 (dirty flag): after every step of updateQuestionText, updateOption,
\* addOption or removeOption the dirty flag is true, and every step in which
\* the flag goes from false to true is a step of one of these four.
C14_DirtyFlag ==
    [][ /\ AnyEdit => hasLocalChanges'
        /\ (~hasLocalChanges /\ hasLocalChanges') => AnyEdit
      ]_vars

\* a save cleared the flag and mirrored its text, and an edit made after it
\* set the flag again
C14_Witness ==
    /\ hasLocalChanges
    /\ nEdits = 2
    /\ saves = <<>>
    /\ exports = <<>>
    /\ surveyState.survey_draft # <<>>
    /\ surveyState.survey_draft = surveyState.final_survey
    /\ questionsToText(questions) # surveyState.survey_draft

\* ---- C15
\* the number of lines the serializer writes for one question: the question
\* line, its option lines or the placeholder line, the blank line
BlockHeight(q) ==
    1 + (IF ~q.isOpen /\ Len(q.options) > 0 THEN Len(q.options)
         ELSE IF q.isOpen THEN 1 ELSE 0) + 1

\* the 1-based number of the question line of qs[p] in the serialized text
RECURSIVE BlockStart(_, _)
BlockStart(qs, p) ==
    IF p = 1 THEN 1 ELSE BlockStart(qs, p - 1) + BlockHeight(qs[p - 1])

\* the lines of the text the serializer produces
SerializedLines(qs) == Split(questionsToText(qs), NL)

\* C15 (option markers): in the serialization of the model, a question that
\* is not open has one line per option right after its question line, in
\* option order; the line of the option of 0-based index j is three spaces,
\* the (j+1)-th circled numeral when j < 12 and "(j+1)" in decimal when
\* j >= 12, one space, and the option's text.
C15_OptionMarkers ==
    LET ls == SerializedLines(questions)
    IN  \A p \in 1..Len(questions) :
           ~questions[p].isOpen =>
              \A j \in 0..(Len(questions[p].options) - 1) :
                 LET marker == IF j < 12 THEN <<circledNumbers[j + 1]>>
                               ELSE <<"(">> \o ToDecimal(j + 1) \o <<")">>
                 IN  ls[BlockStart(questions, p) + 1 + j] =
                        <<" ", " ", " ">> \o marker \o <<" ">>
                          \o Trim(StripLeadingGlyph(questions[p].options[j + 1]))

\* thirteen options: the twelfth line carries the last glyph, the thirteenth
\* the marker "(13)"
C15_Witness ==
    /\ Len(questions) = 1
    /\ Len(questions[1].options) = 13
    /\ SerializedLines(questions)[13] = <<" ", " ", " ", "c12", " ", "w", "1", "2">>
    /\ SerializedLines(questions)[14] =
          <<" ", " ", " ", "(", "1", "3", ")", " ", "w", "1", "3">>
    /\ Len(SerializedLines(questions)) = 16

\* ---- C16
\* C16 (renumbering): in the serialization of the model the blocks of the
\* questions follow one another in sequence order; the block of the question
\* at 1-based position p starts with the line "p. <text> (<type>)", whatever
\* its number field holds, and ends with one blank line, which the last
\* line of the question's own content precedes and the next block follows.
C16_Renumbering ==
    LET ls == SerializedLines(questions)
        n  == Len(questions)
    IN  /\ Len(ls) = BlockStart(questions, n + 1)
        /\ ls[Len(ls)] = <<>>
        /\ \A p \in 1..n :
              LET q == questions[p]
                  s == BlockStart(questions, p)
                  h == BlockHeight(q)
              IN  /\ ls[s] = ToDecimal(p) \o <<".", " ">> \o q.text
                               \o <<" ", "(">> \o q.type \o <<")">>
                  /\ ls[s + h - 1] = <<>>
                  /\ \A k \in s..(s + h - 2) : ls[k] # <<>>

\* 23 questions that were all written with the number 1: the last block
\* starts on line 45 with the label 23
C16_Witness ==
    /\ Len(questions) = 23
    /\ questions[23].number = <<"1">>
    /\ SerializedLines(questions)[45] =
          <<"2", "3", ".", " ", "a", " ", "(", "S", "C", ")">>
    /\ SerializedLines(questions)[46] = <<>>
    /\ Len(SerializedLines(questions)) = 47

\* ---- C17
\* the lines the parser classifies, trimmed
ClassifiedLines(d) == [i \in 1..Len(DraftLines(d)) |-> Trim(DraftLines(d)[i])]

\* the cleaned option texts of the lines a..b, those that yield none left out
RECURSIVE OptionsBetween(_, _, _)
OptionsBetween(ls, a, b) ==
    IF a > b THEN <<>>
    ELSE IF OptionOf(ls[a]) # <<>>
    THEN <<OptionOf(ls[a])>> \o OptionsBetween(ls, a + 1, b)
    ELSE OptionsBetween(ls, a + 1, b)

\* C17 (option attachment): the k-th boundary line of the draft opens the
\* k-th question; its options are the cleaned non-empty option texts of the
\* lines after it and before the next boundary line or the end, in order;
\* its type is the type code on the boundary line, SC when it has none; it
\* is open exactly when the type is OQ or the boundary line contains the
\* open-response keyword.
C17_OptionAttachment ==
    LET ls == ClassifiedLines(surveyContent)
        B  == {i \in 1..Len(ls) : QuestionMatch(ls[i]).ok}
    IN  /\ Len(questions) = Cardinality(B)
        /\ \A b \in B :
              LET k    == Cardinality({j \in B : j <= b})
                  past == {j \in B : j > b} \cup {Len(ls) + 1}
                  nb   == CHOOSE j \in past : \A h \in past : j <= h
              IN  /\ questions[k].options = OptionsBetween(ls, b + 1, nb - 1)
                  /\ questions[k].type = TypeOf(ls[b])
                  /\ questions[k].type \in TypeCodes
                  /\ questions[k].isOpen =
                        (questions[k].type = <<"O", "Q">>
                           \/ Includes(ls[b], OpenKeyword))

\* the scenario draft: a single-choice question with the options "y" and
\* "n", then an open question without options
C17_Witness ==
    /\ surveyContent = ScenarioDraft
    /\ Len(questions) = 2
    /\ questions[1].type = <<"S", "C">>
    /\ ~questions[1].isOpen
    /\ questions[1].options = << <<"y">>, <<"n">> >>
    /\ questions[2].type = <<"O", "Q">>
    /\ questions[2].isOpen
    /\ questions[2].options = <<>>

\* ---- C18
\* the ids of the questions of a model
IdsOf(qs) == {qs[p].id : p \in 1..Len(qs)}

\* C18 (new identities): in every step that re-derives the model, no question
\* of the new model has the id of a question of the model it replaces.
\* It does not hold.
C18_FreshIds ==
    [][ Rederives => IdsOf(questions') \cap IdsOf(questions) = {} ]_vars

\* ---- C19
\* a line the parser recognizes: a boundary line or a line that yields an
\* option
Recognized(line) == QuestionMatch(line).ok \/ OptionOf(line) # <<>>

\* the recognized ones of the lines a.., in order
RECURSIVE RecognizedFrom(_, _)
RecognizedFrom(ls, a) ==
    IF a > Len(ls) THEN <<>>
    ELSE IF Recognized(ls[a]) THEN <<ls[a]>> \o RecognizedFrom(ls, a + 1)
    ELSE RecognizedFrom(ls, a + 1)

\* a Question as the parser builds it
IsQuestion(q) ==
    /\ DOMAIN q = {"id", "number", "text", "options", "type", "isOpen"}
    /\ q.type \in TypeCodes
    /\ q.isOpen \in BOOLEAN
    /\ DOMAIN q.options = 1..Len(q.options)
    /\ \A j \in 1..Len(q.options) : q.options[j] \notin {<<>>, Hole, Undef}

\* C19 (parsing is total): whatever the draft, the parser returns a sequence
\* of questions; the sequence is empty when the draft is empty or blank or
\* has no boundary line; the lines that are neither boundary lines nor yield
\* an option contribute nothing: the draft without them parses to the same
\* sequence.
C19_ParsingTotal ==
    LET ls     == ClassifiedLines(surveyContent)
        parsed == parseSurveyDraft(surveyContent)
    IN  /\ parsed = questions
        /\ DOMAIN parsed = 1..Len(parsed)
        /\ \A p \in 1..Len(parsed) : IsQuestion(parsed[p])
        /\ (\A i \in 1..Len(ls) : ~QuestionMatch(ls[i]).ok) => parsed = <<>>
        /\ Trim(surveyContent) = <<>> => parsed = <<>>
        /\ ParseLines(RecognizedFrom(ls, 1), 1, <<>>, <<>>, 0) = parsed

\* an unrecognized line before and after the only boundary line: one
\* question, no option
C19_Witness ==
    /\ ClassifiedLines(surveyContent) =
          << <<"t">>, <<"Q", "2", ":", " ", "b", " ", "(", "o", "q", ")">>, <<"t">> >>
    /\ ~Recognized(<<"t">>)
    /\ Len(questions) = 1
    /\ questions[1].options = <<>>
    /\ questions[1].type = <<"O", "Q">>

\* ---- C20
\* C20 (failed export keeps the save): in the step in which the exportSurvey
\* call of a handleExport whose save had succeeded settles, by rejection as
\* by resolution, the dirty flag, the upstream state with the mirrored text
\* and both views are unchanged, and isExporting becomes false.
C20_ExportFailureKeepsSave ==
    [][ \A i \in 1..Len(exports) :
          (ExportSettled(i) /\ exports[i].awaited = "ok") =>
             /\ hasLocalChanges' = hasLocalChanges
             /\ surveyState' = surveyState
             /\ questions' = questions
             /\ questionGroups' = questionGroups
             /\ saves' = saves
             /\ ~isExporting'
      ]_vars

\* the save a handleExport started has mirrored its text and cleared the
\* flag; its exportSurvey call is outstanding
C20_Witness ==
    /\ Len(exports) = 1
    /\ exports[1].awaited = "ok"
    /\ isExporting
    /\ ~isSaving
    /\ ~hasLocalChanges
    /\ saves = <<>>
    /\ surveyState.survey_draft # <<>>
    /\ surveyState.final_survey = surveyState.survey_draft

\* ---- C21
\* C21 (saves are not serialized): a saveChanges or handleExport step taken
\* with a session, the dirty flag set, a serializable model and a save still
\* in flight adds a save of its own, which starts with the draft-field call
\* carrying the serialization of the current model, and leaves the saves in
\* flight as they are; in every step, a save found at its final-field call
\* was in flight before the step.
C21_OverlappingSaves ==
    [][ /\ ( /\ saveChanges \/ \E f \in Formats : handleExport(f)
             /\ sessionId # Null
             /\ hasLocalChanges
             /\ saves # <<>>
             /\ ~questionsToTextThrows(questions) ) =>
               /\ Len(saves') = Len(saves) + 1
               /\ SubSeq(saves', 1, Len(saves)) = saves
               /\ saves'[Len(saves')].stage = "survey_draft"
               /\ saves'[Len(saves')].text = questionsToText(questions)
        /\ \A j \in 1..Len(saves') :
              saves'[j].stage = "final_survey" =>
                 \E h \in 1..Len(saves) :
                    /\ saves[h].text = saves'[j].text
                    /\ saves[h].format = saves'[j].format
      ]_vars

\* the persist calls of two saves are outstanding at the same time: the
\* first save is at its final-field call, the second, started by an export
\* after another edit, at its draft-field call with another text
C21_Witness ==
    /\ Len(saves) = 2
    /\ saves[1].stage = "final_survey"
    /\ saves[2].stage = "survey_draft"
    /\ saves[2].format # "none"
    /\ saves[1].text # saves[2].text
    /\ hasLocalChanges
    /\ isSaving

\* ---- C22
\* C22 (open question serialization): in the serialization of the model the
\* block of an open question is its question line, the placeholder line and
\* the blank line, whatever options it holds; the block of a question that
\* is not open and has no option is its question line and the blank line.
C22_OpenPlaceholder ==
    LET ls == SerializedLines(questions)
    IN  \A p \in 1..Len(questions) :
           LET q    == questions[p]
               s    == BlockStart(questions, p)
               next == BlockStart(questions, p + 1)
               qline == ToDecimal(p) \o <<".", " ">> \o q.text
                          \o <<" ", "(">> \o q.type \o <<")">>
           IN  /\ q.isOpen =>
                     /\ next = s + 3
                     /\ SubSeq(ls, s, s + 2) =
                           << qline,
                              <<" ", " ", " ", "[", JU, GWAN, SIK, " ", EUNG, DAP, "]">>,
                              <<>> >>
               /\ (~q.isOpen /\ q.options = <<>>) =>
                     /\ next = s + 2
                     /\ SubSeq(ls, s, s + 1) = << qline, <<>> >>

\* an open question that holds an option, followed by a question without
\* options: five lines and the empty rest
C22_Witness ==
    /\ Len(questions) = 2
    /\ questions[1].isOpen
    /\ Len(questions[1].options) = 1
    /\ ~questions[2].isOpen
    /\ questions[2].options = <<>>
    /\ Len(SerializedLines(questions)) = 6
    /\ SerializedLines(questions)[2] =
          <<" ", " ", " ", "[", JU, GWAN, SIK, " ", EUNG, DAP, "]">>

\* ---- C23
\* C23 (open-question tolerance): the question opened by a boundary line
\* that carries the type OQ or the open-response keyword is open, and its
\* options are the option texts of the lines up to the next boundary line,
\* collected as for any other question.
C23_OpenKeepsOptions ==
    LET ls == ClassifiedLines(surveyContent)
        B  == {i \in 1..Len(ls) : QuestionMatch(ls[i]).ok}
    IN  \A b \in B :
           (TypeOf(ls[b]) = <<"O", "Q">> \/ Includes(ls[b], OpenKeyword)) =>
              LET k    == Cardinality({j \in B : j <= b})
                  past == {j \in B : j > b} \cup {Len(ls) + 1}
                  nb   == CHOOSE j \in past : \A h \in past : j <= h
              IN  /\ questions[k].isOpen
                  /\ Len(questions[k].options) =
                        Cardinality({i \in (b + 1)..(nb - 1) : OptionOf(ls[i]) # <<>>})
                  /\ questions[k].options = OptionsBetween(ls, b + 1, nb - 1)

\* an open question, by its type code, with the two options written after it
C23_Witness ==
    /\ Len(questions) = 1
    /\ questions[1].isOpen
    /\ questions[1].type = <<"O", "Q">>
    /\ questions[1].options = << <<"y">>, <<"n">> >>

\* ---- C24
\* the line begins as the two boundary patterns require: the item keyword
\* after at most two asterisks, or the letter Q, and then a digit
StartsLikeBoundary(line) ==
    \/ \E k \in 0..2 :
          /\ \A h \in 1..k : h <= Len(line) /\ line[h] = "*"
          /\ HasAt(line, k + 1, <<MUN, HANG>>)
          /\ DigitRun(line, k + 3 + WsRun(line, k + 3)) >= 1
    \/ /\ Len(line) >= 2
       /\ line[1] \in {"Q", "q"}
       /\ IsDigit(line[2])

\* the questions the parser has collected once it has read the first n lines
ParsedUpTo(ls, n) == ParseLines(SubSeq(ls, 1, n), 1, <<>>, <<>>, 0)

\* the number of options of all the questions of qs
RECURSIVE OptionCount(_, _)
OptionCount(qs, p) ==
    IF p > Len(qs) THEN 0 ELSE Len(qs[p].options) + OptionCount(qs, p + 1)

\* C24 (boundary-only starts): reading one more line adds a question only
\* when the line begins with the item keyword or Q followed by a number; any
\* other line leaves the number of questions as it is, adds at most one
\* option, to the last question and to no other, and adds nothing while
\* there is no question.
C24_OnlyBoundariesStart ==
    LET ls == ClassifiedLines(surveyContent)
    IN  /\ ParsedUpTo(ls, Len(ls)) = questions
        /\ \A i \in 1..Len(ls) :
              LET before == ParsedUpTo(ls, i - 1)
                  after  == ParsedUpTo(ls, i)
                  n      == Len(before)
              IN  IF StartsLikeBoundary(ls[i]) /\ Len(after) > n
                  THEN Len(after) = n + 1 /\ SubSeq(after, 1, n) = before
                  ELSE /\ Len(after) = n
                       /\ n = 0 => after = <<>>
                       /\ n > 0 =>
                            /\ SubSeq(after, 1, n - 1) = SubSeq(before, 1, n - 1)
                            /\ \/ after[n] = before[n]
                               \/ \E o \in {OptionOf(ls[i])} :
                                     /\ o # <<>>
                                     /\ after[n] = [before[n] EXCEPT
                                                      !.options = Append(@, o)]

\* a numbered line before the boundary line is discarded, the one after it
\* becomes the option of the only question
C24_Witness ==
    /\ ClassifiedLines(surveyContent) =
          << <<"1", ".", " ", "k">>,
             <<"Q", "2", ":", " ", "b", " ", "(", "o", "q", ")">>,
             <<"1", ".", " ", "k">> >>
    /\ Len(questions) = 1
    /\ questions[1].options = << <<"k">> >>

\* ---- C25
\* the captured text t up to its first branch arrow
BeforeArrow(t) ==
    IF IndexFrom(t, ARROW, 1) = 0 THEN t
    ELSE SubSeq(t, 1, IndexFrom(t, ARROW, 1) - 1)

\* the cleaning steps in the order the parser applies them
Cleaned(t) == Trim(StripLeadingGlyph(RemoveTypeCodes(BeforeArrow(t), 1)))

\* the cleaned captured texts of the lines a..b that match an option
\* pattern, those that clean to nothing left out
RECURSIVE CleanedBetween(_, _, _)
CleanedBetween(ls, a, b) ==
    IF a > b THEN <<>>
    ELSE IF ExtractOptionText(ls[a]) # <<>> /\ Cleaned(ExtractOptionText(ls[a])) # <<>>
    THEN <<Cleaned(ExtractOptionText(ls[a]))>> \o CleanedBetween(ls, a + 1, b)
    ELSE CleanedBetween(ls, a + 1, b)

\* C25 (option cleaning): the options of a question are, line by line, the
\* text an option pattern captured, cut at the first branch arrow, without
\* its type-code tokens, without a leading bullet glyph, trimmed; a line
\* whose text cleans to nothing gives no option, so that no option is
\* empty, holds an arrow or has white space at either end.
C25_OptionCleaning ==
    LET ls == ClassifiedLines(surveyContent)
        B  == {i \in 1..Len(ls) : QuestionMatch(ls[i]).ok}
    IN  /\ \A b \in B :
              LET k    == Cardinality({j \in B : j <= b})
                  past == {j \in B : j > b} \cup {Len(ls) + 1}
                  nb   == CHOOSE j \in past : \A h \in past : j <= h
              IN  questions[k].options = CleanedBetween(ls, b + 1, nb - 1)
        /\ \A p \in 1..Len(questions) :
              \A j \in 1..Len(questions[p].options) :
                 LET o == questions[p].options[j]
                 IN  /\ o # <<>>
                     /\ ARROW \notin Range(o)
                     /\ ~IsWs(o[1]) /\ ~IsWs(o[Len(o)])

\* a dash glued to a glyph captures the glyph alone and gives no option; the
\* routed option is cut at its arrow; the type code of the third is removed
C25_Witness ==
    /\ ClassifiedLines(surveyContent) =
          << <<"Q", "2", ":", " ", "b", " ", "(", "o", "q", ")">>,
             <<"-", "c3">>,
             <<"(", "2", ")", " ", "n", " ", ARROW, " ", "Q", "3">> >>
    /\ ExtractOptionText(<<"-", "c3">>) = <<"c3">>
    /\ questions[1].options = << <<"n">> >>

\* ---- C26
\* C26 (closed type set): the type of every question, in the flat sequence
\* and in the grouped view, is one of SC, MA, OQ, RS, DC, RK, MG: SC when its
\* boundary line carries no type code, the upper-cased code otherwise; and a
\* question of type OQ is open.
C26_ClosedTypeSet ==
    LET ls == ClassifiedLines(surveyContent)
        B  == {i \in 1..Len(ls) : QuestionMatch(ls[i]).ok}
        flat == FlattenGroups(questionGroups, 1)
    IN  /\ Len(questions) = Cardinality(B)
        /\ Len(flat) = Cardinality(B)
        /\ \A b \in B :
              LET k  == Cardinality({j \in B : j <= b})
                  at == TypeTokenPos(ls[b], 1)
              IN  \A q \in {questions[k], flat[k]} :
                     /\ q.type \in { <<"S", "C">>, <<"M", "A">>, <<"O", "Q">>,
                                     <<"R", "S">>, <<"D", "C">>, <<"R", "K">>,
                                     <<"M", "G">> }
                     /\ at = 0 => q.type = <<"S", "C">>
                     /\ at > 0 => q.type = UpperSeq(SubSeq(ls[b], at + 1, at + 2))
                     /\ q.type = <<"O", "Q">> => q.isOpen

\* the code written "(oq)" gives the type OQ and an open question; the
\* line without a code gives SC, open by its keyword
C26_Witness ==
    /\ ClassifiedLines(surveyContent) =
          << <<"Q", "2", ":", " ", "b", " ", "(", "o", "q", ")">>,
             <<"*", "*", MUN, HANG, "3", "-", "1", ".", "*", "*", " ", "[", "x", "]",
               " ", "c", " ", JU, GWAN, SIK>> >>
    /\ questions[1].type = <<"O", "Q">>
    /\ questions[1].isOpen
    /\ questions[2].type = <<"S", "C">>
    /\ questions[2].isOpen

\* ---- C27
\* C27 (a save keeps the model): in the step in which the final-field call
\* of a save resolves and its text is mirrored, the question sequence keeps
\* its length and every question its text and its options.
\* It does not hold.
C27_SaveKeepsModel ==
    [][ \A i \in 1..Len(saves) :
          FinalPersisted(i) =>
             /\ Len(questions') = Len(questions)
             /\ \A p \in 1..Len(questions) :
                   /\ questions'[p].text = questions[p].text
                   /\ questions'[p].options = questions[p].options
      ]_vars

\* ---- C28
\* C28 (no edit silently saved): when the final-field call of a save
\* resolves while the dirty flag is set and the model no longer serializes
\* to the text the save persisted, that is, an edit was applied after the
\* save had started, the dirty flag is still true after the step.
\* It does not hold.
C28_NoEditSilentlySaved ==
    [][ \A i \in 1..Len(saves) :
          ( /\ FinalPersisted(i)
            /\ hasLocalChanges
            /\ ~questionsToTextThrows(questions)
            /\ saves[i].text # questionsToText(questions) ) => hasLocalChanges'
      ]_vars

\* ---- C29
\* a step of one of the four edit operations on the question id
EditOf(id) ==
    \/ \E t \in EditTexts : updateQuestionText(id, t)
    \/ \E i \in 0..MaxIdx : \E t \in EditTexts : updateOption(id, i, t)
    \/ addOption(id)
    \/ \E i \in 0..MaxIdx : removeOption(id, i)

\* the questions of after are those of before, one by one, with the same id,
\* number, type and isOpen, and the same in every field unless the id is id
SameButFor(before, after, id) ==
    /\ Len(after) = Len(before)
    /\ \A p \in 1..Len(before) :
          /\ after[p].id = before[p].id
          /\ after[p].number = before[p].number
          /\ after[p].type = before[p].type
          /\ after[p].isOpen = before[p].isOpen
          /\ before[p].id # id => after[p] = before[p]

\* C29 (edit frame): an edit operation on the question id keeps the number
\* and the order of the questions, the id, number, type and isOpen of each,
\* every field of the questions with another id, and the startNum, endNum
\* and isExpanded of every group; when no question has that id, both views
\* stay as they are.
C29_EditFrame ==
    [][ \A id \in EditIds :
          EditOf(id) =>
             /\ SameButFor(questions, questions', id)
             /\ Len(questionGroups') = Len(questionGroups)
             /\ \A k \in 1..Len(questionGroups) :
                   /\ questionGroups'[k].startNum = questionGroups[k].startNum
                   /\ questionGroups'[k].endNum = questionGroups[k].endNum
                   /\ questionGroups'[k].isExpanded = questionGroups[k].isExpanded
                   /\ SameButFor(questionGroups[k].questions,
                                 questionGroups'[k].questions, id)
             /\ (\A p \in 1..Len(questions) : questions[p].id # id) =>
                   /\ questions' = questions
                   /\ questionGroups' = questionGroups
      ]_vars

\* the eleventh of 23 questions was edited twice: its text replaced and an
\* option appended; the first and the last question are as parsed, and the
\* groups keep their bounds
C29_Witness ==
    /\ Len(questions) = 23
    /\ nEdits = 2
    /\ questions[11].text = <<"z">>
    /\ questions[11].options = <<NewOptionText>>
    /\ questions[1].text = <<"a">>
    /\ questions[23].options = <<>>
    /\ questionGroups[2].startNum = 11
    /\ questionGroups[2].questions[1].text = <<"z">>

\* ---- C30
\* C30 (updateOption keeps the length): updateOption(id, i, t), for every
\* index i, leaves the number of options of every question as it is and
\* puts no empty or undefined entry into a list that had none.
\* It does not hold.
C30_UpdateOptionKeepsLength ==
    [][ \A id \in EditIds : \A i \in 0..MaxIdx : \A t \in EditTexts :
          updateOption(id, i, t) =>
             \A p \in 1..Len(questions) :
                /\ Len(questions'[p].options) = Len(questions[p].options)
                /\ (\A j \in 1..Len(questions[p].options) :
                       questions[p].options[j] \notin {Hole, Undef}) =>
                   (\A j \in 1..Len(questions'[p].options) :
                       questions'[p].options[j] \notin {Hole, Undef})
      ]_vars

=============================================================================
